---- MODULE Spec2Model ----
(***************************************************************************)
(* PharmAssist: catalog pagination (UnifiedProductsService), batch and     *)
(* single-item ingestion (IngestorService) and the vector store wrapper    *)
(* (QdrantService), modelled from the TypeScript sources.                  *)
(*                                                                         *)
(* Strings are sequences of one-character strings so that parseInt,        *)
(* String(number) and template concatenation are computed, not assumed.    *)
(***************************************************************************)
EXTENDS Integers, Sequences, FiniteSets, TLC

VARIABLES
  op,            \* top-level operation in progress ("none" before any call)
  pc,            \* position inside the operation
  maxProducts,   \* getAllProducts: parameter maxProducts
  allProducts,   \* getAllProducts: const allProducts (accumulated records)
  currentPage,   \* getAllProducts: let currentPage
  hasNextPage,   \* getAllProducts: let hasNextPage
  requests,      \* page numbers requested with axios.get, in order
  served,        \* responses received for those requests, in order
  delays,        \* for each 500 ms pause: the number of requests issued before it
  query,         \* ingestProductByQuery: parameter query
  idx,           \* ingestAllProducts: loop variable i
  results,       \* ingestAllProducts: const results
  successCount,  \* ingestAllProducts: let successCount
  failureCount,  \* ingestAllProducts: let failureCount
  now,           \* the clock read by Date.now()
  store,         \* vector store collection: numeric point id -> payload
  embedCalls,    \* number of generateEmbedding calls issued
  upserts,       \* numeric point ids passed to client.upsert, in order
  itemDelays,    \* for each 200 ms pause: the number of records processed before it
  chunkId,       \* addChunk: parameter id of a direct call
  hits,          \* QdrantService.search: the ranked points returned
  faults,        \* what the embedding provider and the store did at each item:
                 \* "none", "embed" (generateEmbedding threw), "upsert" (upsert threw)
  ret,           \* value returned by the operation
  thrown,        \* TRUE when the operation threw to its caller
  enabled,       \* QdrantService: private enabled
  collections,   \* the hosts on which the target collection exists
  client,        \* QdrantService: the host its client talks to
  rop,           \* RetrievalService operation last called ("none" before any)
  searchText,    \* searchMedicines: parameter query
  medicines,     \* the list argument of filterByPriceRange and sortMedicines
  params,        \* the other arguments of the RetrievalService operation
  answer,        \* value returned by the RetrievalService operation
  rfault,        \* what failed inside that operation: "none", "embed" (the
                 \* embedding request threw) or "search" (the store query threw)
  chunks,        \* the direct addChunk calls so far: id given, point written, threw
  runs,          \* number of ingestAllProducts runs started
  startSize,     \* number of points the store held when the current run started
  iterations,    \* processWithGemini: let iterations
  calls,         \* processWithGemini: result.functionCalls() of the current result
  asked,         \* the function calls handled in the last round
  responses,     \* processWithGemini: functionResponses of the last round
  toolRequests,  \* MCP tools/call requests issued in the last round, in order
  others         \* number of further points in the collection, written by other
                 \* programs under ids that none of the calls below uses

vars == <<op, pc, maxProducts, allProducts, currentPage, hasNextPage, requests,
          served, delays, query, idx, results, successCount, failureCount, now,
          store, embedCalls, upserts, itemDelays, chunkId, hits, faults, ret, thrown,
          enabled, collections, client, rop, searchText, medicines,
          params, answer, rfault, chunks, runs, startSize, iterations, calls, asked,
          responses, toolRequests, others>>

fetchVars == <<maxProducts, allProducts, currentPage, hasNextPage, requests,
               served, delays>>
ingestVars == <<idx, results, successCount, failureCount, itemDelays>>
storeVars == <<now, store, embedCalls, upserts, faults>>
setupVars == <<enabled, collections, client>>
retrievalVars == <<rop, searchText, medicines, params, answer, rfault>>
chunkVars == <<chunkId, chunks>>
runVars == <<runs, startSize>>
chatVars == <<iterations, calls, asked, responses, toolRequests>>
\* what belongs to one entry point only
restVars == <<chunkVars, runVars, chatVars, others>>
callVars == <<query, restVars, hits, setupVars, retrievalVars>>

(***************************************************************************)
(* Bounds of the model.                                                    *)
(***************************************************************************)
MaxPages == 2        \* page requests per getAllProducts call
MaxCatalog == 2      \* records in the whole catalog, over all its pages
MaxK == 2            \* largest maxProducts argument tried
MaxTicks == 1        \* clock advances (in ms) observed during one operation

MaxLimit == 2        \* largest limit passed to QdrantService.search
MaxMeds == 3         \* longest list given to filterByPriceRange and sortMedicines
MaxPoints == 2       \* points the collection holds before a retrieval
MaxChunks == 2       \* direct addChunk calls in a row
MaxRuns == 2         \* ingestAllProducts runs in a row
MaxCalls == 2        \* function calls in one reply of the model

Now0 == 10           \* clock reading when the operation starts

(***************************************************************************)
(* Strings.                                                                *)
(***************************************************************************)
DigitChars == <<"0", "1", "2", "3", "4", "5", "6", "7", "8", "9">>

IsDigit(c) == \E d \in 1..10 : DigitChars[d] = c

DigitVal(c) == (CHOOSE d \in 1..10 : DigitChars[d] = c) - 1

IsSpace(c) == c = " "

\* String(n) for a non-negative integer n
RECURSIVE NumToString(_)
NumToString(n) ==
  IF n < 10 THEN <<DigitChars[n + 1]>>
  ELSE NumToString(n \div 10) \o <<DigitChars[(n % 10) + 1]>>

RECURSIVE SkipSpaces(_)
SkipSpaces(s) ==
  IF s # <<>> /\ IsSpace(Head(s)) THEN SkipSpaces(Tail(s)) ELSE s

\* value of the longest prefix of decimal digits of s, acc being the value so far
RECURSIVE DigitsValue(_, _)
DigitsValue(s, acc) ==
  IF s # <<>> /\ IsDigit(Head(s))
  THEN DigitsValue(Tail(s), acc * 10 + DigitVal(Head(s)))
  ELSE acc

\* parseInt(s, 10): leading white space, an optional sign, then the longest
\* run of digits; NaN when that run is empty
parseInt(s) ==
  LET t == SkipSpaces(s)
      signed == t # <<>> /\ Head(t) \in {"+", "-"}
      u == IF signed THEN Tail(t) ELSE t
      neg == signed /\ Head(t) = "-"
  IN IF u # <<>> /\ IsDigit(Head(u))
     THEN [nan |-> FALSE, val |-> IF neg THEN 0 - DigitsValue(u, 0) ELSE DigitsValue(u, 0)]
     ELSE [nan |-> TRUE, val |-> 0]

UpperChars == <<"Z", "H", "T", "N">>
LowerChars == <<"z", "h", "t", "n">>

\* String.prototype.toLowerCase, character by character
LowerChar(c) ==
  IF \E k \in 1..Len(UpperChars) : UpperChars[k] = c
  THEN LowerChars[CHOOSE k \in 1..Len(UpperChars) : UpperChars[k] = c]
  ELSE c

toLowerCase(s) == [k \in 1..Len(s) |-> LowerChar(s[k])]

\* String.prototype.includes
includes(s, sub) ==
  \E k \in 0..(Len(s) - Len(sub)) :
    \A j \in 1..Len(sub) : s[k + j] = sub[j]

\* Array.prototype.slice(0, n) for n >= 0
slice(s, n) == IF n >= Len(s) THEN s ELSE SubSeq(s, 1, n)

\* a sequence without its last element
ButLast(s) == SubSeq(s, 1, Len(s) - 1)

(***************************************************************************)
(* JavaScript values of the price and quantity fields.  A number is held   *)
(* in hundredths, so that 45.5 is 4550; NaN is a value of its own.         *)
(***************************************************************************)
Str(s) == [t |-> "string", s |-> s, n |-> 0]

Num(n) == [t |-> "number", s |-> <<>>, n |-> n]

NaN == [t |-> "NaN", s |-> <<>>, n |-> 0]

Undefined == [t |-> "undefined", s |-> <<>>, n |-> 0]

\* the suffix of s after its longest prefix of decimal digits
RECURSIVE SkipDigits(_)
SkipDigits(s) ==
  IF s # <<>> /\ IsDigit(Head(s)) THEN SkipDigits(Tail(s)) ELSE s

\* the first two digits after the decimal point, in hundredths
Hundredths(f) ==
  LET d1 == IF Len(f) >= 1 /\ IsDigit(f[1]) THEN DigitVal(f[1]) ELSE 0
      d2 == IF Len(f) >= 2 /\ IsDigit(f[1]) /\ IsDigit(f[2]) THEN DigitVal(f[2]) ELSE 0
  IN 10 * d1 + d2

\* parseFloat(s): leading white space, an optional sign, digits, an optional
\* point and digits; NaN when there is no digit.  The strings of the model
\* have no exponent and at most two digits after the point.
parseFloat(s) ==
  LET t == SkipSpaces(s)
      signed == t # <<>> /\ Head(t) \in {"+", "-"}
      u == IF signed THEN Tail(t) ELSE t
      neg == signed /\ Head(t) = "-"
      rest == SkipDigits(u)
      hasInt == u # <<>> /\ IsDigit(Head(u))
      frac == IF rest # <<>> /\ Head(rest) = "." THEN Tail(rest) ELSE <<>>
      hasFrac == frac # <<>> /\ IsDigit(Head(frac))
      v == 100 * DigitsValue(u, 0) + Hundredths(frac)
  IN IF hasInt \/ hasFrac THEN Num(IF neg THEN 0 - v ELSE v) ELSE NaN

\* the value of parseInt(s, 10) as a JavaScript number
parseIntValue(s) ==
  LET r == parseInt(s) IN IF r.nan THEN NaN ELSE Num(100 * r.val)

\* ToBoolean
Truthy(v) ==
  \/ v.t = "string" /\ v.s # <<>>
  \/ v.t = "number" /\ v.n # 0

\* v || 0
OrZero(v) == IF Truthy(v) THEN v ELSE Num(0)

\* mutant of NaNToZero: NaN is stored as it is
NaNToZero_Keeps(v) == v

\* isNaN(v) ? 0 : v, for a value v of type number
NaNToZero(v) == IF v.t = "NaN" THEN Num(0) ELSE v

(***************************************************************************)
(* Catalog records and page responses.                                     *)
(***************************************************************************)
ProdZinc == [isNull |-> FALSE, product_name |-> <<"Z", "n">>,
             price |-> Str(<<"n", "/", "a">>), quantity |-> Undefined]
Prod5HT == [isNull |-> FALSE, product_name |-> <<"5", "H", "T">>,
            price |-> Str(<<"4", "5", ".", "5", "0">>), quantity |-> Str(<<"7">>)]
\* a JSON null inside the data array of a page
ProdNull == [isNull |-> TRUE, product_name |-> <<>>, price |-> Undefined,
             quantity |-> Undefined]

Products == {ProdZinc, Prod5HT, ProdNull}

RECURSIVE SeqsUpTo(_, _)
SeqsUpTo(S, n) ==
  IF n = 0 THEN {<<>>}
  ELSE LET shorter == SeqsUpTo(S, n - 1)
       IN shorter \cup {Append(s, x) : s \in {t \in shorter : Len(t) = n - 1}, x \in S}

PageData == SeqsUpTo(Products, MaxCatalog)

\* the records of the pages in a sequence of responses, in page order
RECURSIVE ServedData(_)
ServedData(s) ==
  IF s = <<>> THEN <<>> ELSE ServedData(SubSeq(s, 1, Len(s) - 1)) \o s[Len(s)].data

\* next_page_url of a page: a URL, null, or the key missing from the JSON
NextLinks == {"url", "null", "absent"}

\* a response with success = true
OkResponses == [kind : {"ok"}, data : PageData, next : NextLinks]

\* a request that fails: axios rejects (transport error, timeout, HTTP error
\* status) or the body carries success = false; such a body may still carry
\* records and a link
FailResponses ==
  [kind : {"neterr", "notsuccess"}, data : {<<>>}, next : {"null"}]
  \cup {[kind |-> "notsuccess", data |-> <<ProdZinc>>, next |-> "url"]}

\* mutant of Unsuccessful: the success flag of the body is not looked at
Unsuccessful_Ignored(resp) == FALSE

\* !response.data.success (lines 75 and 138)
Unsuccessful(resp) == resp.kind = "notsuccess"

\* the request does not yield a page: axios rejects, or the test of the
\* success flag throws
Rejected(resp) == resp.kind = "neterr" \/ Unsuccessful(resp)

(***************************************************************************)
(* Return values.                                                          *)
(***************************************************************************)
NoReturn == [tag |-> "none"]

\* a message text: its fixed wording and the error message it carries, if any
Message(text, err) == [text |-> text, err |-> err]

ProductsReturn(list) == [tag |-> "products", products |-> list]

\* mutant of BatchReturn: totalProducts is filled with the success count
BatchReturn_TotalIsSuccessful(total, ok, bad, outcomes, msg) ==
  [tag |-> "batch", totalProducts |-> ok, successful |-> ok, failed |-> bad,
   results |-> outcomes, message |-> msg]

BatchReturn(total, ok, bad, outcomes, msg) ==
  [tag |-> "batch", totalProducts |-> total, successful |-> ok, failed |-> bad,
   results |-> outcomes, message |-> msg]

IngestResult(id, name, ok, msg) ==
  [id |-> id, productName |-> name, success |-> ok, message |-> msg]

OutcomeReturn(r) == [tag |-> "outcome", outcome |-> r]

\* the host of QDRANT_HOST
MainHost == "main"

\* no direct call, no run and no chat round yet
InitRest ==
  /\ chunks = <<>>
  /\ runs = 0
  /\ startSize = 0
  /\ iterations = 0
  /\ calls = <<>>
  /\ asked = <<>>
  /\ responses = <<>>
  /\ toolRequests = <<>>
  /\ others = 0

Init ==
  /\ op = "none"
  /\ pc = "idle"
  /\ maxProducts = 0
  /\ allProducts = <<>>
  /\ currentPage = 1
  /\ hasNextPage = TRUE
  /\ requests = <<>>
  /\ served = <<>>
  /\ delays = <<>>
  /\ query = <<>>
  /\ idx = 0
  /\ results = <<>>
  /\ successCount = 0
  /\ failureCount = 0
  /\ now = Now0
  /\ store = [x \in {} |-> 0]
  /\ embedCalls = 0
  /\ upserts = <<>>
  /\ itemDelays = <<>>
  /\ chunkId = <<>>
  /\ hits = [threw |-> FALSE, limit |-> 0, points |-> <<>>]
  /\ faults = <<>>
  /\ ret = NoReturn
  /\ thrown = FALSE
  /\ enabled = TRUE
  /\ collections = {MainHost}
  /\ client = MainHost
  /\ rop = "none"
  /\ searchText = <<>>
  /\ medicines = <<>>
  /\ params = NoReturn
  /\ answer = NoReturn
  /\ rfault = "none"
  /\ InitRest

(***************************************************************************)
(* UnifiedProductsService.getAllProducts                                   *)
(***************************************************************************)
\* entry of getAllProducts(k): the locals of lines 58-60
BeginFetch(k) ==
  /\ maxProducts' = k
  /\ allProducts' = <<>>
  /\ currentPage' = 1
  /\ hasNextPage' = TRUE
  /\ pc' = "loop"
  /\ UNCHANGED <<requests, served, delays>>

CallGetAllProducts ==
  /\ pc = "idle"
  /\ \E k \in 0..MaxK : BeginFetch(k)
  /\ op' = "getAllProducts"
  /\ UNCHANGED <<callVars, ingestVars, storeVars, ret, thrown>>

\* the condition of the while loop
LoopGuard == hasNextPage /\ (maxProducts = 0 \/ Len(allProducts) < maxProducts)

\* mutant of LinkNotNull: the comparison inverted (=== null)
LinkNotNull_Inverted(next) == next = "null"

\* response.data.data.next_page_url !== null; a missing key reads as
\* undefined, and undefined !== null is true
LinkNotNull(next) == next # "null"

\* mutant of MorePages: a page without records ends the pagination
MorePages_NeedsRecords(data, next) == data # <<>> /\ LinkNotNull(next)

\* hasNextPage as line 96 sets it: the records of the page play no part
MorePages(data, next) == LinkNotNull(next)

\* mutant of PageTake: the whole page is pushed, whatever the quota
PageTake_WholePage(data) == data

\* the records of a page that are pushed onto allProducts
PageTake(data) ==
  IF maxProducts > 0 THEN slice(data, maxProducts - Len(allProducts)) ELSE data

\* mutant of DelayDue: the next page is requested at once
DelayDue_Never(more) == FALSE

\* the pause of line 100 is taken inside if (hasNextPage)
DelayDue(more) == more

\* one loop iteration whose request succeeds with success = true
FetchPageOk ==
  /\ pc = "loop"
  /\ LoopGuard
  /\ Len(requests) < MaxPages
  /\ \E resp \in OkResponses \cup FailResponses :
       LET all2 == allProducts \o PageTake(resp.data)
           limitHit == maxProducts > 0 /\ Len(all2) >= maxProducts
           more == ~limitHit /\ MorePages(resp.data, resp.next)
       IN /\ ~Rejected(resp)
          /\ Len(ServedData(served)) + Len(resp.data) <= MaxCatalog
          /\ requests' = Append(requests, currentPage)
          /\ served' = Append(served, resp)
          /\ allProducts' = all2
          /\ hasNextPage' = more
          /\ currentPage' = IF more THEN currentPage + 1 ELSE currentPage
          /\ pc' = IF DelayDue(more) THEN "delay" ELSE "loop"
  /\ UNCHANGED <<op, maxProducts, delays, callVars, ingestVars, storeVars, ret, thrown>>

\* mutant of HasNextAfterError: the catch block leaves hasNextPage set
HasNextAfterError_Retry == TRUE

\* hasNextPage as the catch block of lines 103-108 leaves it
HasNextAfterError == FALSE

\* one loop iteration whose request throws, or whose body has success = false
FetchPageFail ==
  /\ pc = "loop"
  /\ LoopGuard
  /\ Len(requests) < MaxPages
  /\ \E resp \in OkResponses \cup FailResponses :
       /\ Rejected(resp)
       /\ Len(ServedData(served)) + Len(resp.data) <= MaxCatalog
       /\ requests' = Append(requests, currentPage)
       /\ served' = Append(served, resp)
  /\ hasNextPage' = HasNextAfterError
  /\ UNCHANGED <<op, pc, maxProducts, allProducts, currentPage, delays, callVars,
                 ingestVars, storeVars, ret, thrown>>

\* the 500 ms pause of line 100
PageDelay ==
  /\ pc = "delay"
  /\ delays' = Append(delays, Len(requests))
  /\ pc' = "loop"
  /\ UNCHANGED <<op, maxProducts, allProducts, currentPage, hasNextPage, requests,
                 served, callVars, ingestVars, storeVars, ret, thrown>>

\* getAllProducts called directly: return allProducts (line 112)
ReturnAllProducts ==
  /\ op = "getAllProducts"
  /\ pc = "loop"
  /\ ~LoopGuard
  /\ ret' = ProductsReturn(allProducts)
  /\ pc' = "done"
  /\ UNCHANGED <<op, fetchVars, callVars, ingestVars, storeVars, thrown>>

\* what getProducts returns: the body of the response (line 143)
PageReturn(resp) == [tag |-> "page", data |-> resp.data, next |-> resp.next]

\* getProducts(page): one request; the body is returned, or the error of the
\* request or of the success test is rethrown (lines 125-149)
CallGetProducts ==
  /\ pc = "idle"
  /\ \E page \in 1..MaxPages, resp \in OkResponses \cup FailResponses :
       /\ Len(resp.data) <= MaxCatalog
       /\ requests' = <<page>>
       /\ served' = <<resp>>
       /\ thrown' = Rejected(resp)
       /\ ret' = IF Rejected(resp) THEN ret ELSE PageReturn(resp)
  /\ op' = "getProducts"
  /\ pc' = "done"
  /\ UNCHANGED <<maxProducts, allProducts, currentPage, hasNextPage, delays, callVars,
                 ingestVars, storeVars>>

(***************************************************************************)
(* Date.now(), EmbeddingService and QdrantService                          *)
(***************************************************************************)
\* the values Date.now() may return at this point: time does not run backwards
ClockReadings == now..(Now0 + MaxTicks)

Upsert(st, id, payload) ==
  [x \in (DOMAIN st) \cup {id} |-> IF x = id THEN payload ELSE st[x]]

\* QdrantService.addChunk(id, embedding, payload); upsertOk tells whether
\* client.upsert resolves.  sent: the upsert request was issued.
\* With QDRANT_ENABLED=false the client is an empty object and the call of
\* client.upsert throws a TypeError.
addChunk(id, upsertOk) ==
  LET numericId == parseInt(id)
  IN IF numericId.nan
     THEN [threw |-> TRUE, err |-> "Invalid numeric ID", sent |-> FALSE, numericId |-> 0]
     ELSE IF ~enabled
     THEN [threw |-> TRUE, err |-> "TypeError", sent |-> FALSE, numericId |-> numericId.val]
     ELSE IF upsertOk
     THEN [threw |-> FALSE, err |-> "", sent |-> TRUE, numericId |-> numericId.val]
     ELSE [threw |-> TRUE, err |-> "upsert failed", sent |-> TRUE, numericId |-> numericId.val]

\* the fault, if any, that one embed-and-store attempt met
FaultOf(embedOk, r) ==
  IF ~embedOk THEN "embed"
  ELSE IF r.threw /\ r.err # "Invalid numeric ID" THEN "upsert"
  ELSE "none"

UnknownPrefix == <<"u", "n", "k", "n", "o", "w", "n", "_">>

UnknownName == <<"U", "n", "k", "n", "o", "w", "n">>

(***************************************************************************)
(* IngestorService.ingestAllProducts                                       *)
(***************************************************************************)
CallIngestAllProducts ==
  /\ pc = "idle"
  /\ \E k \in 0..MaxK : BeginFetch(k)
  /\ op' = "ingestAllProducts"
  /\ UNCHANGED <<callVars, ingestVars, storeVars, ret, thrown>>

\* mutant of EmptyFetch: the empty fetch is not told apart
EmptyFetch_Never(list) == FALSE

\* the test of line 231
EmptyFetch(list) == Len(list) = 0

\* getAllProducts has returned: the empty-fetch return of lines 231-239, or
\* the locals of lines 241-243
IngestFetched ==
  /\ op = "ingestAllProducts"
  /\ pc = "loop"
  /\ ~LoopGuard
  /\ IF EmptyFetch(allProducts)
     THEN /\ ret' = BatchReturn(0, 0, 0, <<>>, Message("No products found in the API", ""))
          /\ pc' = "done"
     ELSE /\ ret' = ret
          /\ pc' = "ingest"
  /\ idx' = 0
  /\ results' = <<>>
  /\ successCount' = 0
  /\ failureCount' = 0
  /\ UNCHANGED <<op, fetchVars, callVars, itemDelays, storeVars, thrown>>

\* price of lines 257 and 262
CoercePrice(p) ==
  NaNToZero(IF p.t = "string" THEN parseFloat(p.s) ELSE OrZero(p))

\* quantity of lines 258 and 263
CoerceQuantity(q) ==
  NaNToZero(IF q.t = "string" THEN parseIntValue(q.s) ELSE OrZero(q))

\* payload of lines 260-269
BatchPayload(product) ==
  [product_name |-> product.product_name,
   price |-> CoercePrice(product.price),
   quantity |-> CoerceQuantity(product.quantity)]

\* the outcome pushed at lines 276-281
SuccessOutcome(timestampId, product) ==
  IngestResult(NumToString(timestampId), product.product_name, TRUE,
               Message("Successfully ingested: ", ""))

\* mutant of FailureOutcome: the failure is recorded under the name 'Unknown'
FailureOutcome_Unknown(t, product, err) ==
  IngestResult(UnknownPrefix \o NumToString(t), UnknownName, FALSE,
               Message("Failed to ingest: ", err))

\* the outcome pushed at lines 293-298, t being the reading of Date.now()
FailureOutcome(t, product, err) ==
  IngestResult(UnknownPrefix \o NumToString(t), product.product_name, FALSE,
               Message("Failed to ingest: ", err))

\* mutant of TimestampId: the index is left out of the identifier
TimestampId_ClockOnly(t, i) == t

\* Date.now() + i (line 256), t being the reading of Date.now()
TimestampId(t, i) == t + i

\* one iteration in which the embedding and the store write both succeed
\* (lines 249-288)
IngestItemStored ==
  /\ pc = "ingest"
  /\ idx < Len(allProducts)
  /\ LET product == allProducts[idx + 1]
     IN /\ ~product.isNull
        /\ \E t \in ClockReadings :
             LET timestampId == TimestampId(t, idx)
                 r == addChunk(NumToString(timestampId), TRUE)
             IN /\ ~r.threw
                /\ now' = t
                /\ store' = Upsert(store, r.numericId, BatchPayload(product))
                /\ upserts' = Append(upserts, r.numericId)
                /\ results' = Append(results, SuccessOutcome(timestampId, product))
  /\ embedCalls' = embedCalls + 1
  /\ faults' = Append(faults, "none")
  /\ successCount' = successCount + 1
  /\ idx' = idx + 1
  /\ pc' = IF idx < Len(allProducts) - 1 THEN "itemDelay" ELSE "ingest"
  /\ UNCHANGED <<op, fetchVars, callVars, failureCount, itemDelays, ret, thrown>>

\* one iteration in which generateEmbedding or addChunk throws: the catch
\* block of lines 289-301
IngestItemFailed ==
  /\ pc = "ingest"
  /\ idx < Len(allProducts)
  /\ LET product == allProducts[idx + 1]
     IN /\ ~product.isNull
        /\ \E embedOk \in BOOLEAN, upsertOk \in BOOLEAN, t \in ClockReadings :
             LET timestampId == TimestampId(t, idx)
                 r == addChunk(NumToString(timestampId), upsertOk)
                 err == IF embedOk THEN r.err ELSE "embedding failed"
             IN /\ ~embedOk \/ r.threw
                /\ upserts' = IF embedOk /\ r.sent THEN Append(upserts, r.numericId) ELSE upserts
                /\ faults' = Append(faults, FaultOf(embedOk, r))
                /\ \E t2 \in t..(Now0 + MaxTicks) :
                     /\ now' = t2
                     /\ results' = Append(results, FailureOutcome(t2, product, err))
  /\ embedCalls' = embedCalls + 1
  /\ failureCount' = failureCount + 1
  /\ idx' = idx + 1
  /\ UNCHANGED <<op, pc, fetchVars, callVars, successCount, itemDelays, store, ret, thrown>>

\* mutant of BatchCatchRethrows: the outer catch block logs and rethrows
BatchCatchRethrows_Yes == TRUE

\* the outer catch block of lines 313-323 returns a summary; it does not rethrow
BatchCatchRethrows == FALSE

\* one iteration on a null record: reading product.product_name throws at
\* line 249 and again in the catch block at line 291, which hands the error
\* to the outer catch block
IngestItemThrows ==
  /\ pc = "ingest"
  /\ idx < Len(allProducts)
  /\ allProducts[idx + 1].isNull
  /\ thrown' = BatchCatchRethrows
  /\ ret' = IF BatchCatchRethrows THEN ret
            ELSE BatchReturn(0, 0, 0, <<>>, Message("Batch ingestion failed: ", "TypeError"))
  /\ pc' = "done"
  /\ UNCHANGED <<op, fetchVars, callVars, ingestVars, storeVars>>

\* the 200 ms pause of line 287
ItemDelay ==
  /\ pc = "itemDelay"
  /\ itemDelays' = Append(itemDelays, idx)
  /\ pc' = "ingest"
  /\ UNCHANGED <<op, fetchVars, callVars, idx, results, successCount, failureCount,
                 storeVars, ret, thrown>>

\* the loop is over: the return of lines 306-312
ReturnBatch ==
  /\ pc = "ingest"
  /\ idx = Len(allProducts)
  /\ ret' = BatchReturn(Len(allProducts), successCount, failureCount, results,
                        Message("Ingestion complete", ""))
  /\ pc' = "done"
  /\ UNCHANGED <<op, fetchVars, callVars, ingestVars, storeVars, thrown>>

\* ingestAllProducts(k) called again once a run has returned: the locals of
\* the run start afresh (and with them the logs kept per run); the store and
\* the clock go on
CallIngestAllProductsAgain ==
  /\ op = "ingestAllProducts"
  /\ pc = "done"
  /\ ~thrown
  /\ runs < MaxRuns - 1
  /\ \E k \in 0..MaxK : maxProducts' = k
  /\ allProducts' = <<>>
  /\ currentPage' = 1
  /\ hasNextPage' = TRUE
  /\ requests' = <<>>
  /\ served' = <<>>
  /\ delays' = <<>>
  /\ idx' = 0
  /\ results' = <<>>
  /\ successCount' = 0
  /\ failureCount' = 0
  /\ itemDelays' = <<>>
  /\ embedCalls' = 0
  /\ upserts' = <<>>
  /\ faults' = <<>>
  /\ ret' = NoReturn
  /\ runs' = runs + 1
  /\ startSize' = Cardinality(DOMAIN store)
  /\ pc' = "loop"
  /\ UNCHANGED <<op, query, chunkVars, chatVars, others, hits, setupVars,
                 retrievalVars, now, store, thrown>>

(***************************************************************************)
(* UnifiedProductsService.searchProduct,                                   *)
(* IngestorService.ingestProductByQuery                                    *)
(***************************************************************************)
Queries == {<<"z", "N">>, <<"h", "t">>, <<"x">>}

\* mutant of Matches: the comparison is case-sensitive
Matches_CaseSensitive(name, q) == includes(name, q)

\* the predicate of line 163
Matches(name, q) == includes(toLowerCase(name), toLowerCase(q))

\* searchProduct on the fetched list (lines 162-168): Array.find visits the
\* records in order and stops at the first match; on a null record the
\* predicate throws a TypeError
searchProduct(list, q) ==
  LET stops == {k \in 1..Len(list) :
                   \/ list[k].isNull
                   \/ Matches(list[k].product_name, q)}
      first == CHOOSE k \in stops : \A j \in stops : k <= j
  IN IF stops = {} THEN [status |-> "Product not found", product |-> ProdNull]
     ELSE IF list[first].isNull THEN [status |-> "TypeError", product |-> ProdNull]
     ELSE [status |-> "found", product |-> list[first]]

\* the queries of direct searchProduct calls: also the empty string, which
\* every name contains
SearchQueries == Queries \cup {<<>>}

\* searchProduct(q): getAllProducts() first (line 161)
CallSearchProduct ==
  /\ pc = "idle"
  /\ \E q \in SearchQueries : query' = q
  /\ BeginFetch(0)
  /\ op' = "searchProduct"
  /\ UNCHANGED <<restVars, hits, setupVars, retrievalVars, ingestVars, storeVars,
                 ret, thrown>>

ProductReturn(product) == [tag |-> "product", product |-> product]

ErrorReturn(err) == [tag |-> "error", err |-> err]

\* getAllProducts has returned: the match is returned, or the error is
\* rethrown by the catch block of lines 172-176
ReturnSearchProduct ==
  /\ op = "searchProduct"
  /\ pc = "loop"
  /\ ~LoopGuard
  /\ LET found == searchProduct(allProducts, query)
     IN /\ thrown' = (found.status # "found")
        /\ ret' = IF found.status = "found" THEN ProductReturn(found.product)
                  ELSE ErrorReturn(found.status)
  /\ pc' = "done"
  /\ UNCHANGED <<op, fetchVars, callVars, ingestVars, storeVars>>

CallIngestProductByQuery ==
  /\ pc = "idle"
  /\ \E q \in Queries : query' = q
  /\ BeginFetch(0)
  /\ op' = "ingestProductByQuery"
  /\ UNCHANGED <<restVars, hits, setupVars, retrievalVars, ingestVars, storeVars,
                 ret, thrown>>

\* payload of lines 346-355
QueryPayload(product) ==
  [product_name |-> product.product_name, price |-> product.price,
   quantity |-> product.quantity]

\* id of line 345: `${product.product_name}_${Date.now()}`
QueryId(product, t) == product.product_name \o <<"_">> \o NumToString(t)

\* the product is found, embedded and stored: lines 336-365
IngestByQueryStored ==
  /\ op = "ingestProductByQuery"
  /\ pc = "loop"
  /\ ~LoopGuard
  /\ LET found == searchProduct(allProducts, query)
     IN /\ found.status = "found"
        /\ \E t \in ClockReadings :
             LET id == QueryId(found.product, t)
                 r == addChunk(id, TRUE)
             IN /\ ~r.threw
                /\ now' = t
                /\ store' = Upsert(store, r.numericId, QueryPayload(found.product))
                /\ upserts' = Append(upserts, r.numericId)
                /\ ret' = OutcomeReturn(IngestResult(id, found.product.product_name, TRUE,
                                          Message("Successfully ingested product: ", "")))
  /\ embedCalls' = embedCalls + 1
  /\ faults' = Append(faults, "none")
  /\ pc' = "done"
  /\ UNCHANGED <<op, fetchVars, callVars, ingestVars, thrown>>

\* mutant of QueryFailure: the message does not carry the error
QueryFailure_NoError(t, err) ==
  OutcomeReturn(IngestResult(UnknownPrefix \o NumToString(t), UnknownName, FALSE,
                             Message("Failed to ingest product: ", "")))

\* what the catch block of lines 366-375 returns, t being the reading of
\* Date.now() and err the message of the error caught
QueryFailure(t, err) ==
  OutcomeReturn(IngestResult(UnknownPrefix \o NumToString(t), UnknownName, FALSE,
                             Message("Failed to ingest product: ", err)))

\* searchProduct, generateEmbedding or addChunk throws: the catch block of
\* lines 366-375
IngestByQueryFailed ==
  /\ op = "ingestProductByQuery"
  /\ pc = "loop"
  /\ ~LoopGuard
  /\ LET found == searchProduct(allProducts, query)
     IN IF found.status # "found"
        THEN /\ \E t2 \in ClockReadings :
                  /\ now' = t2
                  /\ ret' = QueryFailure(t2, found.status)
             /\ UNCHANGED <<embedCalls, upserts, faults>>
        ELSE \E embedOk \in BOOLEAN, upsertOk \in BOOLEAN, t \in ClockReadings :
               LET r == addChunk(QueryId(found.product, t), upsertOk)
                   err == IF embedOk THEN r.err ELSE "embedding failed"
               IN /\ ~embedOk \/ r.threw
                  /\ embedCalls' = embedCalls + 1
                  /\ upserts' = IF embedOk /\ r.sent THEN Append(upserts, r.numericId)
                                ELSE upserts
                  /\ faults' = Append(faults, FaultOf(embedOk, r))
                  /\ \E t2 \in t..(Now0 + MaxTicks) :
                       /\ now' = t2
                       /\ ret' = QueryFailure(t2, err)
  /\ pc' = "done"
  /\ UNCHANGED <<op, fetchVars, callVars, ingestVars, store, thrown>>

(***************************************************************************)
(* QdrantService.addChunk and QdrantService.search called directly         *)
(***************************************************************************)
\* the id of the mock suite, an id of digits, and an id that starts with digits
MockId == <<"m", "o", "c", "k", "_", "0", "0", "1">>

ChunkIds == {MockId, <<"1", "2">>, <<"1", "2", "_", "9">>}

MockPayload == [product_name |-> <<"Z", "n">>, price |-> Num(4500), quantity |-> Num(10000)]

\* the effect of addChunk(id, embedding, MockPayload)
AddChunkCall(id, upsertOk) ==
  LET r == addChunk(id, upsertOk)
  IN /\ chunkId' = id
     /\ chunks' = Append(chunks, [id |-> id, point |-> r.numericId, threw |-> r.threw])
     /\ thrown' = r.threw
     /\ upserts' = IF r.sent THEN Append(upserts, r.numericId) ELSE upserts
     /\ faults' = Append(faults, FaultOf(TRUE, r))
     /\ store' = IF r.threw THEN store ELSE Upsert(store, r.numericId, MockPayload)

CallAddChunk ==
  /\ pc = "idle"
  /\ \E id \in ChunkIds, upsertOk \in BOOLEAN : AddChunkCall(id, upsertOk)
  /\ op' = "addChunk"
  /\ pc' = "done"
  /\ UNCHANGED <<fetchVars, query, hits, setupVars, retrievalVars, ingestVars, now,
                 embedCalls, ret, runVars, chatVars, others>>

\* one more addChunk call on the same service
CallAddChunkAgain ==
  /\ op = "addChunk"
  /\ pc = "done"
  /\ Len(chunks) < MaxChunks
  /\ \E id \in ChunkIds, upsertOk \in BOOLEAN : AddChunkCall(id, upsertOk)
  /\ UNCHANGED <<op, pc, fetchVars, query, hits, setupVars, retrievalVars, ingestVars,
                 now, embedCalls, ret, runVars, chatVars, others>>

\* the orders in which n of the points of S may be ranked
Rankings(S, n) ==
  {r \in SeqsUpTo(S, n) : Len(r) = n /\ \A a, b \in 1..n : a # b => r[a] # r[b]}

Min(a, b) == IF a <= b THEN a ELSE b

\* QdrantService.search(queryEmbedding, limit) after the operation: the
\* limit nearest points with their payloads, or the client's error rethrown
CallSearch ==
  /\ pc = "done"
  /\ \E limit \in 1..MaxLimit, ok \in BOOLEAN :
       IF ok
       THEN \E rank \in Rankings(DOMAIN store, Min(limit, Cardinality(DOMAIN store))) :
              hits' = [threw |-> FALSE, limit |-> limit,
                       points |-> [k \in 1..Len(rank) |->
                                     [id |-> rank[k], payload |-> store[rank[k]]]]]
       ELSE hits' = [threw |-> TRUE, limit |-> limit, points |-> <<>>]
  /\ pc' = "searched"
  /\ UNCHANGED <<op, fetchVars, query, restVars, setupVars, retrievalVars, ingestVars,
                 storeVars, ret, thrown>>

(***************************************************************************)
(* RetrievalService.searchMedicines and RetrievalService.getMedicineById   *)
(***************************************************************************)
Thrown == [tag |-> "throw"]

NullReturn == [tag |-> "null"]

SearchResult(q, meds) ==
  [tag |-> "search", query |-> q, medicines |-> meds, totalResults |-> Len(meds)]

\* how many of the limit nearest points may be points of store, the other
\* places being taken by points counted in others
ListedCounts(limit) ==
  LET n == Cardinality(DOMAIN store)
      returned == Min(limit, n + others)
  IN {m \in 0..Min(returned, n) : m + others >= returned}

\* what QdrantService.search(vector, limit) may return: the client's error
\* rethrown, or the limit nearest points in some ranking (of which points
\* lists those of store; with others = 0, all of them).  With
\* QDRANT_ENABLED=false the call of client.search throws a TypeError.
SearchOutcomes(limit) ==
  {[threw |-> TRUE, limit |-> limit, points |-> <<>>]}
  \cup (IF enabled
        THEN {[threw |-> FALSE, limit |-> limit,
               points |-> [k \in 1..Len(rank) |->
                             [id |-> rank[k], payload |-> store[rank[k]]]]] :
                rank \in UNION {Rankings(DOMAIN store, m) : m \in ListedCounts(limit)}}
        ELSE {})

\* a point stored without a payload
NoPayload == [absent |-> TRUE]

\* result.payload?.field: every field of a missing payload reads undefined,
\* and so does a field the payload lacks (an undefined name is written <<>>:
\* as the empty string, it is falsy)
PayloadOf(point) ==
  IF point.payload = NoPayload
  THEN [product_name |-> <<>>, price |-> Undefined, quantity |-> Undefined]
  ELSE point.payload

\* mutant of NameOrUnknown: the name is taken as it is stored
NameOrUnknown_AsStored(s) == s

\* payload.product_name || 'Unknown'
NameOrUnknown(s) == IF s # <<>> THEN s ELSE UnknownName

\* the RetrievedMedicine of lines 68-79 and 152-163, without its category,
\* date and score fields
RetrievedMedicine(point) ==
  [id |-> NumToString(point.id),
   product_name |-> NameOrUnknown(PayloadOf(point).product_name),
   price |-> OrZero(PayloadOf(point).price),
   quantity |-> OrZero(PayloadOf(point).quantity)]

MapMedicines(points) == [k \in 1..Len(points) |-> RetrievedMedicine(points[k])]

\* mutant of SearchCatchRethrows: the catch block logs and rethrows
SearchCatchRethrows_Yes == TRUE

\* the catch block of lines 90-99 returns a response; it does not rethrow
SearchCatchRethrows == FALSE

\* what searchMedicines returns from its catch block
SearchFailure(q) == IF SearchCatchRethrows THEN Thrown ELSE SearchResult(q, <<>>)

SearchTexts == {<<"z", "n">>, <<"h", "t">>}

\* the body of searchMedicines(q, limit): one embedding request, then one
\* search of the store, then the mapping of the hits
searchMedicines(q, limit) ==
  /\ searchText' = q
  /\ \E embedOk \in BOOLEAN :
       IF embedOk
       THEN \E found \in SearchOutcomes(limit) :
              /\ hits' = found
              /\ rfault' = IF found.threw THEN "search" ELSE "none"
              /\ answer' = IF found.threw THEN SearchFailure(q)
                           ELSE SearchResult(q, MapMedicines(found.points))
       ELSE /\ hits' = hits
            /\ rfault' = "embed"
            /\ answer' = SearchFailure(q)
  /\ embedCalls' = embedCalls + 1

\* searchMedicines(q, limit), called once the ingestion is over
CallSearchMedicines ==
  /\ pc = "done"
  /\ \E q \in SearchTexts, limit \in 1..MaxLimit :
       /\ params' = [limit |-> limit]
       /\ searchMedicines(q, limit)
  /\ rop' = "searchMedicines"
  /\ pc' = "retrieved"
  /\ UNCHANGED <<op, fetchVars, query, restVars, setupVars, medicines, ingestVars, now,
                 store, upserts, faults, ret, thrown>>
(***************************************************************************)
\* the limit of the search issued by getMedicineById (line 143)
ByIdLimit == 1000

\* identifiers asked for: of points the ingestion may have stored, and others
MedicineIds ==
  {<<"5">>, <<"1", "2">>, MockId} \cup {NumToString(n) : n \in Now0..(Now0 + MaxTicks)}

\* results.find(r => String(r.id) === medicineId): the first such hit, if any
FindById(points, id) ==
  LET matches == {k \in 1..Len(points) : NumToString(points[k].id) = id}
  IN IF matches = {} THEN NullReturn
     ELSE [tag |-> "medicine",
           medicine |-> RetrievedMedicine(points[CHOOSE k \in matches :
                                                   \A j \in matches : k <= j])]

\* mutant of ByIdCatchReturn: the catch block rethrows
ByIdCatchReturn_Throws == Thrown

\* what the catch block of lines 164-168 hands to the caller
ByIdCatchReturn == NullReturn

\* getMedicineById(id), called once the ingestion is over
CallGetMedicineById ==
  /\ pc = "done"
  /\ \E id \in MedicineIds, found \in SearchOutcomes(ByIdLimit) :
       /\ params' = [medicineId |-> id]
       /\ hits' = found
       /\ rfault' = IF found.threw THEN "search" ELSE "none"
       /\ answer' = IF found.threw THEN ByIdCatchReturn ELSE FindById(found.points, id)
  /\ rop' = "getMedicineById"
  /\ pc' = "retrieved"
  /\ UNCHANGED <<op, fetchVars, query, restVars, setupVars, searchText, medicines,
                 ingestVars, storeVars, ret, thrown>>

\* the collection as a batch ingestion followed by a lookup may find it:
\* empty, or holding as many points as the search of getMedicineById returns
InitLookup ==
  /\ op = "none"
  /\ pc = "idle"
  /\ maxProducts = 0
  /\ allProducts = <<>>
  /\ currentPage = 1
  /\ hasNextPage = TRUE
  /\ requests = <<>>
  /\ served = <<>>
  /\ delays = <<>>
  /\ query = <<>>
  /\ idx = 0
  /\ results = <<>>
  /\ successCount = 0
  /\ failureCount = 0
  /\ now = Now0
  /\ store = [x \in {} |-> 0]
  /\ embedCalls = 0
  /\ upserts = <<>>
  /\ itemDelays = <<>>
  /\ chunkId = <<>>
  /\ hits = [threw |-> FALSE, limit |-> 0, points |-> <<>>]
  /\ faults = <<>>
  /\ ret = NoReturn
  /\ thrown = FALSE
  /\ enabled = TRUE
  /\ collections = {MainHost}
  /\ client = MainHost
  /\ rop = "none"
  /\ searchText = <<>>
  /\ medicines = <<>>
  /\ params = NoReturn
  /\ answer = NoReturn
  /\ rfault = "none"
  /\ chunks = <<>>
  /\ runs = 0
  /\ startSize = 0
  /\ iterations = 0
  /\ calls = <<>>
  /\ asked = <<>>
  /\ responses = <<>>
  /\ toolRequests = <<>>
  /\ others \in {0, ByIdLimit}

(***************************************************************************)
(* RetrievalService.filterByPriceRange and RetrievalService.sortMedicines  *)
(***************************************************************************)
Medicine(id, price, quantity, score) ==
  [id |-> id, price |-> Num(price), quantity |-> Num(quantity), score |-> Num(score)]

\* medicines as searchMedicines returns them; some share a quantity or a score
MedicineUniverse ==
  {Medicine(<<"1">>, 500, 300, 90), Medicine(<<"2">>, 1000, 100, 50),
   Medicine(<<"3">>, 10000, 100, 70), Medicine(<<"4">>, 10050, 0, 50)}

MedicineLists == SeqsUpTo(MedicineUniverse, MaxMeds)

\* values given for minPrice and maxPrice, 0 being the default of minPrice
PriceBounds == {0, 1000, 10000}

\* Number(v) for a value of type number
Number(v) == v.n

\* mutant of InRange: the upper bound is exclusive
InRange_UpperExclusive(m, minPrice, maxPrice) ==
  Number(m.price) >= minPrice /\ Number(m.price) < maxPrice

\* the predicate of line 196
InRange(m, minPrice, maxPrice) ==
  Number(m.price) >= minPrice /\ Number(m.price) <= maxPrice

\* Array.prototype.filter with that predicate
RECURSIVE filterByPriceRange(_, _, _)
filterByPriceRange(list, minPrice, maxPrice) ==
  IF list = <<>> THEN <<>>
  ELSE (IF InRange(Head(list), minPrice, maxPrice) THEN <<Head(list)>> ELSE <<>>)
       \o filterByPriceRange(Tail(list), minPrice, maxPrice)

\* mutant of Compare: the order argument is not looked at
Compare_IgnoresOrder(a, b, sortBy, order) == Number(a[sortBy]) - Number(b[sortBy])

\* the comparator of lines 225-229
Compare(a, b, sortBy, order) ==
  IF order = "desc" THEN Number(b[sortBy]) - Number(a[sortBy])
  ELSE Number(a[sortBy]) - Number(b[sortBy])

\* x put into the sorted list s, after the elements that do not compare
\* greater than it: Array.prototype.sort is stable
RECURSIVE InsertSorted(_, _, _, _)
InsertSorted(x, s, sortBy, order) ==
  IF s = <<>> THEN <<x>>
  ELSE IF Compare(Head(s), x, sortBy, order) > 0 THEN <<x>> \o s
  ELSE <<Head(s)>> \o InsertSorted(x, Tail(s), sortBy, order)

\* [...medicines].sort(comparator)
RECURSIVE sortMedicines(_, _, _)
sortMedicines(list, sortBy, order) ==
  IF list = <<>> THEN <<>>
  ELSE InsertSorted(list[Len(list)], sortMedicines(ButLast(list), sortBy, order),
                    sortBy, order)

\* mutant of ArrayAfterSort: the argument itself is sorted, in place
ArrayAfterSort_InPlace(list, sorted) == sorted

\* the caller's array after the call: line 225 sorts a copy
ArrayAfterSort(list, sorted) == list

ListReturn(list) == [tag |-> "list", list |-> list]

\* the state in which a list of medicines is at hand
InitPure ==
  /\ op = "none"
  /\ pc = "idle"
  /\ maxProducts = 0
  /\ allProducts = <<>>
  /\ currentPage = 1
  /\ hasNextPage = TRUE
  /\ requests = <<>>
  /\ served = <<>>
  /\ delays = <<>>
  /\ query = <<>>
  /\ idx = 0
  /\ results = <<>>
  /\ successCount = 0
  /\ failureCount = 0
  /\ now = Now0
  /\ store = [x \in {} |-> 0]
  /\ embedCalls = 0
  /\ upserts = <<>>
  /\ itemDelays = <<>>
  /\ chunkId = <<>>
  /\ hits = [threw |-> FALSE, limit |-> 0, points |-> <<>>]
  /\ faults = <<>>
  /\ ret = NoReturn
  /\ thrown = FALSE
  /\ enabled = TRUE
  /\ collections = {MainHost}
  /\ client = MainHost
  /\ rop = "none"
  /\ searchText = <<>>
  /\ medicines \in MedicineLists
  /\ params = NoReturn
  /\ answer = NoReturn
  /\ rfault = "none"
  /\ InitRest

\* filterByPriceRange(medicines, minPrice, maxPrice)
CallFilterByPriceRange ==
  /\ pc = "idle"
  /\ \E minPrice \in PriceBounds, maxPrice \in PriceBounds :
       /\ params' = [given |-> medicines, minPrice |-> minPrice, maxPrice |-> maxPrice]
       /\ answer' = ListReturn(filterByPriceRange(medicines, minPrice, maxPrice))
  /\ rop' = "filterByPriceRange"
  /\ pc' = "retrieved"
  /\ UNCHANGED <<op, fetchVars, query, restVars, hits, setupVars, searchText, medicines,
                 rfault, ingestVars, storeVars, ret, thrown>>

\* sortMedicines(medicines, sortBy, order)
CallSortMedicines ==
  /\ pc = "idle"
  /\ \E sortBy \in {"price", "score", "quantity"}, order \in {"asc", "desc"} :
       LET sorted == sortMedicines(medicines, sortBy, order)
       IN /\ params' = [given |-> medicines, sortBy |-> sortBy, order |-> order]
          /\ answer' = ListReturn(sorted)
          /\ medicines' = ArrayAfterSort(medicines, sorted)
  /\ rop' = "sortMedicines"
  /\ pc' = "retrieved"
  /\ UNCHANGED <<op, fetchVars, query, restVars, hits, setupVars, searchText, rfault,
                 ingestVars, storeVars, ret, thrown>>

(***************************************************************************)
(* QdrantService.initialize, IngestorService.initialize and the ingestion  *)
(* runner                                                                  *)
(***************************************************************************)
\* a host variant of QDRANT_HOST built at lines 94-110
AltHost == "alt"

\* hostCandidates: the variants built from QDRANT_HOST, which may coincide
\* with it
HostCandidates == SeqsUpTo({MainHost, AltHost}, 2)

\* createCollection on host h resolves only if the host accepts it and the
\* collection is not there yet
Creates(h, accepted, cols) == accepted /\ h \notin cols

\* the loop of lines 112-125 over the candidates from position k on: the
\* first candidate, other than the original host, on which the collection
\* is created; 0 when there is none
RECURSIVE FirstCreated(_, _, _, _)
FirstCreated(cands, altOk, cols, k) ==
  IF k > Len(cands) THEN 0
  ELSE IF cands[k] # MainHost /\ Creates(cands[k], altOk[k], cols) THEN k
  ELSE FirstCreated(cands, altOk, cols, k + 1)

\* QdrantService.initialize (lines 45-130).  listOk: getCollections
\* resolves; createOk, retryOk, altOk: the host accepts the createCollection
\* of line 63, of line 81 on the same client, and of line 81 on each candidate.
initialize(listOk, createOk, retryOk, cands, altOk) ==
  LET exists == client \in collections
      done(cols, cl) == [threw |-> FALSE, collections |-> cols, client |-> cl]
      k == FirstCreated(cands, altOk, collections, 1)
  IN IF ~enabled THEN done(collections, client)
     ELSE IF listOk /\ exists THEN done(collections, client)
     ELSE IF listOk /\ Creates(client, createOk, collections)
     THEN done(collections \cup {client}, client)
     ELSE IF Creates(client, retryOk, collections)
     THEN done(collections \cup {client}, client)
     ELSE IF k > 0
     THEN done(collections \cup {cands[k]}, cands[k])
     ELSE [threw |-> TRUE, collections |-> collections, client |-> client]

\* mutant of InitializeRethrows: IngestorService.initialize logs the error
\* and returns
InitializeRethrows_Swallows == FALSE

\* the catch block of IngestorService.initialize (lines 211-215) rethrows
InitializeRethrows == TRUE

\* the state in which the runner starts: the store enabled or not, the
\* collection present on the configured host or not
InitRun ==
  /\ op = "main"
  /\ pc = "start"
  /\ maxProducts = 0
  /\ allProducts = <<>>
  /\ currentPage = 1
  /\ hasNextPage = TRUE
  /\ requests = <<>>
  /\ served = <<>>
  /\ delays = <<>>
  /\ query = <<>>
  /\ idx = 0
  /\ results = <<>>
  /\ successCount = 0
  /\ failureCount = 0
  /\ now = Now0
  /\ store = [x \in {} |-> 0]
  /\ embedCalls = 0
  /\ upserts = <<>>
  /\ itemDelays = <<>>
  /\ chunkId = <<>>
  /\ hits = [threw |-> FALSE, limit |-> 0, points |-> <<>>]
  /\ faults = <<>>
  /\ ret = NoReturn
  /\ thrown = FALSE
  /\ enabled \in BOOLEAN
  /\ collections \in {{}, {MainHost}}
  /\ client = MainHost
  /\ rop = "none"
  /\ searchText = <<>>
  /\ medicines = <<>>
  /\ params = NoReturn
  /\ answer = NoReturn
  /\ rfault = "none"
  /\ InitRest

\* main, line 45: await ingestorService.initialize(); when it throws, the
\* catch block of lines 60-64 ends the process
RunInitialize ==
  /\ op = "main"
  /\ pc = "start"
  /\ \E listOk \in BOOLEAN, createOk \in BOOLEAN, retryOk \in BOOLEAN,
        cands \in HostCandidates :
       \E altOk \in [1..Len(cands) -> BOOLEAN] :
         LET r == initialize(listOk, createOk, retryOk, cands, altOk)
             failed == r.threw /\ InitializeRethrows
         IN /\ collections' = r.collections
            /\ client' = r.client
            /\ thrown' = failed
            /\ pc' = IF failed THEN "exit" ELSE "ready"
  /\ UNCHANGED <<op, fetchVars, query, restVars, hits, enabled, retrievalVars,
                 ingestVars, storeVars, ret>>

\* main, line 48: ingestAllProducts(0)
RunIngestAllProducts ==
  /\ op = "main"
  /\ pc = "ready"
  /\ BeginFetch(0)
  /\ op' = "ingestAllProducts"
  /\ UNCHANGED <<callVars, ingestVars, storeVars, ret, thrown>>

(***************************************************************************)
(* RetrievalService.searchByProductName, searchByCategory and              *)
(* getRecommendations, over a collection that already holds points         *)
(***************************************************************************)
\* array.join(sep)
RECURSIVE join(_, _)
join(list, sep) ==
  IF list = <<>> THEN <<>>
  ELSE IF Len(list) = 1 THEN list[1]
  ELSE list[1] \o sep \o join(Tail(list), sep)

\* "medicines in "
CategoryPrefix == <<"m", "e", "d", "i", "c", "i", "n", "e", "s", " ", "i", "n", " ">>

\* " category"
CategorySuffix == <<" ", "c", "a", "t", "e", "g", "o", "r", "y">>

\* ", "
SymptomSeparator == <<",", " ">>

\* mutant of CategoryQuery: the category alone is the query text
CategoryQuery_Bare(category) == category

\* `medicines in ${category} category`
CategoryQuery(category) == CategoryPrefix \o category \o CategorySuffix

\* symptoms.join(', ')
SymptomsQuery(symptoms) == join(symptoms, SymptomSeparator)

Categories == {<<"v", "i", "t">>, <<>>}

SymptomWords == {<<"f", "l", "u">>, <<"z", "n">>}

SymptomLists == SeqsUpTo(SymptomWords, 2)

\* ids of the points the collection holds at the start
PointIds == Now0..(Now0 + MaxPoints - 1)

\* a payload without a name and without a price
PartialPayload == [product_name |-> <<>>, price |-> Undefined, quantity |-> Num(700)]

StoredPayloads == {MockPayload, PartialPayload, NoPayload}

\* the collections a retrieval may meet
Stores == UNION {[S -> StoredPayloads] : S \in SUBSET PointIds}

InitRetrieval ==
  /\ op = "none"
  /\ pc = "done"
  /\ maxProducts = 0
  /\ allProducts = <<>>
  /\ currentPage = 1
  /\ hasNextPage = TRUE
  /\ requests = <<>>
  /\ served = <<>>
  /\ delays = <<>>
  /\ query = <<>>
  /\ idx = 0
  /\ results = <<>>
  /\ successCount = 0
  /\ failureCount = 0
  /\ now = Now0
  /\ store \in Stores
  /\ embedCalls = 0
  /\ upserts = <<>>
  /\ itemDelays = <<>>
  /\ chunkId = <<>>
  /\ hits = [threw |-> FALSE, limit |-> 0, points |-> <<>>]
  /\ faults = <<>>
  /\ ret = NoReturn
  /\ thrown = FALSE
  /\ enabled = TRUE
  /\ collections = {MainHost}
  /\ client = MainHost
  /\ rop = "none"
  /\ searchText = <<>>
  /\ medicines = <<>>
  /\ params = NoReturn
  /\ answer = NoReturn
  /\ rfault = "none"
  /\ InitRest

\* searchByProductName(productName, limit)
CallSearchByProductName ==
  /\ pc = "done"
  /\ \E productName \in SearchTexts, limit \in 1..MaxLimit :
       /\ params' = [productName |-> productName, limit |-> limit]
       /\ searchMedicines(productName, limit)
  /\ rop' = "searchByProductName"
  /\ pc' = "retrieved"
  /\ UNCHANGED <<op, fetchVars, query, restVars, setupVars, medicines, ingestVars, now,
                 store, upserts, faults, ret, thrown>>

\* searchByCategory(category, limit)
CallSearchByCategory ==
  /\ pc = "done"
  /\ \E category \in Categories, limit \in 1..MaxLimit :
       /\ params' = [category |-> category, limit |-> limit]
       /\ searchMedicines(CategoryQuery(category), limit)
  /\ rop' = "searchByCategory"
  /\ pc' = "retrieved"
  /\ UNCHANGED <<op, fetchVars, query, restVars, setupVars, medicines, ingestVars, now,
                 store, upserts, faults, ret, thrown>>

\* getRecommendations(symptoms, limit)
CallGetRecommendations ==
  /\ pc = "done"
  /\ \E symptoms \in SymptomLists, limit \in 1..MaxLimit :
       /\ params' = [symptoms |-> symptoms, limit |-> limit]
       /\ searchMedicines(SymptomsQuery(symptoms), limit)
  /\ rop' = "getRecommendations"
  /\ pc' = "retrieved"
  /\ UNCHANGED <<op, fetchVars, query, restVars, setupVars, medicines, ingestVars, now,
                 store, upserts, faults, ret, thrown>>

(***************************************************************************)
(* processWithGemini of the chat route                                     *)
(***************************************************************************)
\* const maxIterations (line 219)
maxIterations == 5

\* const toolMapping (lines 169-174)
toolMapping ==
  [search_medicines |-> "SEARCH_MEDS", check_stock |-> "CHECK_STOCK",
   find_alternatives |-> "FIND_ALTERNATIVES",
   get_medicine_details |-> "GET_MEDICINE_DETAILS"]

\* keys that every object literal inherits from Object.prototype
InheritedKeys == {"toString", "constructor", "valueOf", "hasOwnProperty"}

\* function names a reply of the model may carry: two of the declared tools, a
\* name that is no key at all and a name that is an inherited key
FunctionNames == {"search_medicines", "check_stock", "get_weather", "toString"}

\* the lists of function calls of one reply (none: the reply is plain text)
CallLists == SeqsUpTo(FunctionNames, MaxCalls)

\* toolMapping[name]: the value of an own key, the inherited member for an
\* inherited key, undefined otherwise
Lookup(name) ==
  IF name \in DOMAIN toolMapping THEN [t |-> "string", v |-> toolMapping[name]]
  ELSE IF name \in InheritedKeys THEN [t |-> "function", v |-> name]
  ELSE [t |-> "undefined", v |-> ""]

\* !mcpToolName (line 230)
UnknownTool(name) == Lookup(name).t = "undefined"

\* the functionResponse pushed for one call (lines 231-236 and 246-251);
\* callTool catches every error and returns a string, so a tool that was
\* called always yields a result
FunctionResponse(name) ==
  [name |-> name, kind |-> IF UnknownTool(name) THEN "error" ELSE "result"]

\* the body of the for loop (lines 226-252) over the calls cs: the responses
\* pushed, in order
RECURSIVE Responses(_)
Responses(cs) ==
  IF cs = <<>> THEN <<>>
  ELSE <<FunctionResponse(Head(cs))>> \o Responses(Tail(cs))

\* the tools/call requests that loop sends through mcpClient.callTool, in order
RECURSIVE Requests(_)
Requests(cs) ==
  IF cs = <<>> THEN <<>>
  ELSE (IF UnknownTool(Head(cs)) THEN <<>>
        ELSE <<[call |-> Head(cs), tool |-> Lookup(Head(cs))]>>)
       \o Requests(Tail(cs))

ChatReturn(text) == [tag |-> "chat", text |-> text]

\* lines 258-263: the text of the reply, or the apology when it is blank
ReplyText(text) == IF text = "" THEN "I apologize" ELSE text

\* processWithGemini(message, mcpClient) up to the first reply: the key is
\* missing or chat.sendMessage throws, or the reply carries a list of calls
CallProcessWithGemini ==
  /\ pc = "idle"
  /\ op' = "processWithGemini"
  /\ iterations' = 0
  /\ \E sent \in BOOLEAN :
       IF sent
       THEN /\ \E cs \in CallLists : calls' = cs
            /\ pc' = "chat"
            /\ thrown' = FALSE
       ELSE /\ calls' = calls
            /\ pc' = "done"
            /\ thrown' = TRUE
  /\ UNCHANGED <<fetchVars, query, chunkVars, runVars, others, hits, setupVars,
                 retrievalVars, ingestVars, storeVars, ret, asked, responses,
                 toolRequests>>

\* the condition of the while loop (line 221)
RoundGuard == calls # <<>> /\ iterations < maxIterations

\* one iteration of the while loop: every call is answered, then the
\* responses are sent and the next reply is received, or sendMessage throws
ChatRound ==
  /\ pc = "chat"
  /\ RoundGuard
  /\ iterations' = iterations + 1
  /\ asked' = calls
  /\ responses' = Responses(calls)
  /\ toolRequests' = Requests(calls)
  /\ \E sent \in BOOLEAN :
       IF sent
       THEN /\ \E cs \in CallLists : calls' = cs
            /\ pc' = "chat"
            /\ thrown' = FALSE
       ELSE /\ calls' = calls
            /\ pc' = "done"
            /\ thrown' = TRUE
  /\ UNCHANGED <<op, fetchVars, query, chunkVars, runVars, others, hits, setupVars,
                 retrievalVars, ingestVars, storeVars, ret>>

\* the loop is over: the return of lines 258-263
ReturnChat ==
  /\ pc = "chat"
  /\ ~RoundGuard
  /\ \E text \in {"", "reply"} : ret' = ChatReturn(ReplyText(text))
  /\ pc' = "done"
  /\ UNCHANGED <<op, fetchVars, callVars, ingestVars, storeVars, thrown>>

(***************************************************************************)
(* Specifications: one per entry point.                                    *)
(***************************************************************************)
NextFetch ==
  \/ CallGetAllProducts
  \/ FetchPageOk
  \/ FetchPageFail
  \/ PageDelay
  \/ ReturnAllProducts
  \/ CallGetProducts
  \/ CallSearchProduct
  \/ ReturnSearchProduct

SpecFetch == Init /\ [][NextFetch]_vars

NextBatch ==
  \/ CallIngestAllProducts
  \/ FetchPageOk
  \/ FetchPageFail
  \/ PageDelay
  \/ IngestFetched
  \/ IngestItemStored
  \/ IngestItemFailed
  \/ IngestItemThrows
  \/ ItemDelay
  \/ ReturnBatch

SpecBatch == Init /\ [][NextBatch]_vars

NextSingle ==
  \/ CallIngestProductByQuery
  \/ FetchPageOk
  \/ FetchPageFail
  \/ PageDelay
  \/ IngestByQueryStored
  \/ IngestByQueryFailed
  \/ CallAddChunk
  \/ CallSearch
  \/ CallSearchMedicines
  \/ CallGetMedicineById

SpecSingle == Init /\ [][NextSingle]_vars

NextRun ==
  \/ RunInitialize
  \/ RunIngestAllProducts
  \/ FetchPageOk
  \/ FetchPageFail
  \/ PageDelay
  \/ IngestFetched
  \/ IngestItemStored
  \/ IngestItemFailed
  \/ IngestItemThrows
  \/ ItemDelay
  \/ ReturnBatch

SpecRun == InitRun /\ [][NextRun]_vars

NextRuns ==
  \/ CallIngestAllProducts
  \/ CallIngestAllProductsAgain
  \/ FetchPageOk
  \/ FetchPageFail
  \/ PageDelay
  \/ IngestFetched
  \/ IngestItemStored
  \/ IngestItemFailed
  \/ IngestItemThrows
  \/ ItemDelay
  \/ ReturnBatch

SpecRuns == Init /\ [][NextRuns]_vars

NextLookup ==
  \/ CallIngestAllProducts
  \/ FetchPageOk
  \/ FetchPageFail
  \/ PageDelay
  \/ IngestFetched
  \/ IngestItemStored
  \/ IngestItemFailed
  \/ IngestItemThrows
  \/ ItemDelay
  \/ ReturnBatch
  \/ CallGetMedicineById

SpecLookup == InitLookup /\ [][NextLookup]_vars

NextChat ==
  \/ CallProcessWithGemini
  \/ ChatRound
  \/ ReturnChat

SpecChat == Init /\ [][NextChat]_vars

\* every await of processWithGemini settles: a step that is due is taken
SpecChatFair == SpecChat /\ WF_vars(NextChat)

NextChunks ==
  \/ CallAddChunk
  \/ CallAddChunkAgain
  \/ CallSearch

SpecChunks == Init /\ [][NextChunks]_vars

NextRetrieval ==
  \/ CallSearchMedicines
  \/ CallSearchByProductName
  \/ CallSearchByCategory
  \/ CallGetRecommendations
  \/ CallGetMedicineById

SpecRetrieval == InitRetrieval /\ [][NextRetrieval]_vars

NextPure ==
  \/ CallFilterByPriceRange
  \/ CallSortMedicines

SpecPure == InitPure /\ [][NextPure]_vars

(***************************************************************************)
(* Properties of getAllProducts (SpecFetch).                               *)
(***************************************************************************)
Returned(o) == op = o /\ pc = "done"

AllOk(s) == \A k \in 1..Len(s) : s[k].kind = "ok"

\* C1: getAllProducts(0) over a catalog whose pages 1..N succeed with a link
\* and whose page N+1 succeeds with a null link requests the pages 1, 2, ...,
\* N+1 in that order, stops there, and returns the records of these pages
\* concatenated in page order.  (The pages served are those of the catalog, so
\* the run has stopped at page N+1 exactly when the last page served is the
\* first one with a null link.)
C1_FetchAllPages ==
  (/\ Returned("getAllProducts")
   /\ maxProducts = 0
   /\ AllOk(served)
   /\ \A k \in 1..Len(served) : served[k].next \in {"url", "null"})
  => /\ Len(served) >= 1
     /\ served[Len(served)].next = "null"
     /\ \A k \in 1..(Len(served) - 1) : served[k].next = "url"
     /\ requests = [k \in 1..Len(served) |-> k]
     /\ ret.products = ServedData(served)

\* a run over a catalog with N = 1: two pages, both holding a record
C1_Witness ==
  /\ Returned("getAllProducts")
  /\ maxProducts = 0
  /\ Len(served) = 2
  /\ AllOk(served)
  /\ served[1].next = "url"
  /\ served[2].next = "null"
  /\ Len(served[1].data) = 1
  /\ Len(served[2].data) = 1
  /\ ret.products = served[1].data \o served[2].data

\* C2: with all page fetches succeeding and 0 < K < the number of records
\* available, getAllProducts(K) returns exactly the first K records in page
\* order, cutting the last fetched page to the remaining quota, and requests
\* no page once K records are accumulated; it does not stop short of K while
\* the catalog has a further page.
C2_QuotaTruncates ==
  (Returned("getAllProducts") /\ maxProducts > 0 /\ AllOk(served))
  => LET all == ServedData(served)
     IN /\ Len(served) >= 1
        /\ Len(ServedData(ButLast(served))) < maxProducts
        /\ Len(all) > maxProducts =>
             /\ Len(ret.products) = maxProducts
             /\ ret.products = SubSeq(all, 1, maxProducts)
        /\ Len(all) < maxProducts => served[Len(served)].next = "null"

\* K = 1 and a first page of two records: the page is cut to one record
C2_Witness ==
  /\ Returned("getAllProducts")
  /\ maxProducts = 1
  /\ Len(served) = 1
  /\ served[1].kind = "ok"
  /\ Len(served[1].data) = 2
  /\ ret.products = <<served[1].data[1]>>

\* C3: when the fetch of page p fails, getAllProducts does not throw, requests
\* no page after p, and returns exactly the records of pages 1..p-1.
C3_FailedPageStops ==
  op = "getAllProducts"
  => /\ \A k \in 1..(Len(served) - 1) : served[k].kind = "ok"
     /\ (Len(served) >= 1 /\ served[Len(served)].kind # "ok")
        => /\ ~thrown
           /\ pc \in {"loop", "done"}
           /\ ~LoopGuard
           /\ requests = [k \in 1..Len(served) |-> k]
           /\ allProducts = ServedData(ButLast(served))
           /\ pc = "done" => ret.products = ServedData(ButLast(served))

\* page 2 fails after a first page with a record: that record is returned
C3_Witness ==
  /\ Returned("getAllProducts")
  /\ Len(served) = 2
  /\ served[2].kind # "ok"
  /\ Len(served[1].data) >= 1
  /\ ret.products = served[1].data

\* C4: after a successfully fetched page whose next-page link is null or is
\* missing from the response, no further page is requested.
C4_NullOrAbsentLinkEnds ==
  op = "getAllProducts"
  => \A k \in 1..Len(served) :
       (served[k].kind = "ok" /\ served[k].next \in {"null", "absent"})
       => /\ k = Len(served)
          /\ pc # "delay"

(***************************************************************************)
(* Properties of ingestAllProducts (SpecBatch).                            *)
(***************************************************************************)
NoNullRecord(list) == \A k \in 1..Len(list) : ~list[k].isNull

NoFault == \A k \in 1..Len(faults) : faults[k] = "none"

CountOutcomes(rs, flag) == Cardinality({k \in 1..Len(rs) : rs[k].success = flag})

\* C6: every BatchIngestResult returned by ingestAllProducts has
\* successful + failed = totalProducts = the length of results, successful
\* counting the outcomes with success = true and failed the others.
C6_CountsAddUp ==
  (Returned("ingestAllProducts") /\ ret.tag = "batch")
  => /\ ret.successful + ret.failed = ret.totalProducts
     /\ ret.totalProducts = Len(ret.results)
     /\ ret.successful = CountOutcomes(ret.results, TRUE)
     /\ ret.failed = CountOutcomes(ret.results, FALSE)

\* a summary with one success and one failure
C6_Witness ==
  /\ Returned("ingestAllProducts")
  /\ ret.tag = "batch"
  /\ ret.successful = 1
  /\ ret.failed = 1
  /\ ret.totalProducts = 2

\* C7: whatever the catalog, the embedding provider and the store do, and
\* also when a fetched record is malformed, ingestAllProducts does not throw
\* and what it returns is a BatchIngestResult.
C7_BatchNeverThrows ==
  op = "ingestAllProducts"
  => /\ ~thrown
     /\ pc = "done" => ret.tag = "batch"
     /\ pc = "ingest" => idx <= Len(allProducts)

\* the second record is null, after the embedding of the first has thrown
C7_Witness ==
  /\ Returned("ingestAllProducts")
  /\ Len(allProducts) = 2
  /\ allProducts[2].isNull
  /\ faults = <<"embed">>
  /\ ret.tag = "batch"
  /\ ret.message.text = "Batch ingestion failed: "

\* C8: when the catalog fetch yields no record, ingestAllProducts returns
\* totalProducts = successful = failed = 0, no results and the message 'No
\* products found in the API', without throwing, without a call to the
\* embedding provider and without a write to the store.
C8_EmptyFetchSummary ==
  (Returned("ingestAllProducts") /\ Len(allProducts) = 0)
  => /\ ret = BatchReturn(0, 0, 0, <<>>, Message("No products found in the API", ""))
     /\ ~thrown
     /\ embedCalls = 0
     /\ upserts = <<>>
     /\ DOMAIN store = {}

\* an empty first page with a link, then a failing second page
C8_Witness ==
  /\ Returned("ingestAllProducts")
  /\ Len(allProducts) = 0
  /\ Len(served) = 2
  /\ ret.totalProducts = 0
  /\ ret.message.text = "No products found in the API"

(***************************************************************************)
(* Properties of ingestProductByQuery and addChunk (SpecSingle).           *)
(***************************************************************************)
\* C9: when searchProduct finds a record and neither the embedding request
\* nor the store fails, ingestProductByQuery persists one point for it and
\* returns success = true with the identifier made of the product name and
\* the current time, and the product name.
C9_QueryIngestSucceeds ==
  (/\ Returned("ingestProductByQuery")
   /\ searchProduct(allProducts, query).status = "found"
   /\ NoFault)
  => LET product == searchProduct(allProducts, query).product
     IN /\ ret.outcome.success
        /\ ret.outcome.productName = product.product_name
        /\ ret.outcome.id = QueryId(product, now)
        /\ Len(upserts) = 1
        /\ Cardinality(DOMAIN store) = 1
        /\ \A x \in DOMAIN store : store[x] = QueryPayload(product)

\* C10: addChunk persists the point without error whatever identifier string
\* it is given, and a later nearest-neighbour search returns that point.
C10_AddChunkAnyId ==
  (op = "addChunk" /\ NoFault)
  => /\ ~thrown
     /\ Cardinality(DOMAIN store) = 1
     /\ (pc = "searched" /\ ~hits.threw) =>
          \E k \in 1..Len(hits.points) : hits.points[k].payload = MockPayload

(***************************************************************************)
(* Properties of retrieval after an ingestion (SpecSingle).                *)
(***************************************************************************)
Retrieved(o) == rop = o /\ pc = "retrieved"

\* C11: a record whose price is a numeric string, once ingested, is returned
\* by searchMedicines with a price of type number equal to the parsed value,
\* and a record whose quantity is a numeric string with a quantity of type
\* number equal to the parsed value.
C11_PriceRoundTrip ==
  (/\ op = "ingestProductByQuery"
   /\ ret.tag = "outcome"
   /\ ret.outcome.success
   /\ Retrieved("searchMedicines")
   /\ answer.tag = "search")
  => LET product == searchProduct(allProducts, query).product
     IN \A k \in 1..Len(answer.medicines) :
          /\ (product.price.t = "string" /\ parseFloat(product.price.s).t = "number")
             => answer.medicines[k].price = parseFloat(product.price.s)
          /\ (product.quantity.t = "string" /\ parseIntValue(product.quantity.s).t = "number")
             => answer.medicines[k].quantity = parseIntValue(product.quantity.s)

\* C12: searchMedicines does not throw; when the embedding request or the
\* store query fails it returns the query text it was given, no medicine and
\* totalResults = 0, and so it does when the store returns no hit.
C12_SearchNeverThrows ==
  Retrieved("searchMedicines")
  => /\ answer.tag = "search"
     /\ answer.query = searchText
     /\ answer.totalResults = Len(answer.medicines)
     /\ (rfault # "none" \/ hits.points = <<>>)
        => /\ answer.medicines = <<>>
           /\ answer.totalResults = 0

\* the store holds a point and its query fails after the embedding succeeded
C12_Witness ==
  /\ Retrieved("searchMedicines")
  /\ rfault = "search"
  /\ Cardinality(DOMAIN store) = 1
  /\ answer = SearchResult(searchText, <<>>)

\* C18: getMedicineById does not throw; it returns null when no stored point
\* has the identifier asked for, and when the store query fails.
C18_ByIdNullNeverThrows ==
  Retrieved("getMedicineById")
  => /\ answer # Thrown
     /\ (\A x \in DOMAIN store : NumToString(x) # params.medicineId) => answer = NullReturn
     /\ rfault = "search" => answer = NullReturn

\* the store holds point 12 and the identifier asked for is 5
C18_Witness ==
  /\ Retrieved("getMedicineById")
  /\ rfault = "none"
  /\ DOMAIN store = {12}
  /\ params.medicineId = <<"5">>
  /\ answer = NullReturn

\* C16: when searchProduct finds no match, or the embedding request or the
\* store write throws, ingestProductByQuery does not throw; it returns one
\* outcome with success = false whose message carries the error, and the
\* store holds no new point.
C16_QueryFailureReturned ==
  (/\ op = "ingestProductByQuery"
   /\ pc \in {"done", "searched", "retrieved"}
   /\ \/ searchProduct(allProducts, query).status = "Product not found"
      \/ faults \in {<<"embed">>, <<"upsert">>})
  => LET err == IF faults = <<"embed">> THEN "embedding failed"
                ELSE IF faults = <<"upsert">> THEN "upsert failed"
                ELSE "Product not found"
     IN /\ ~thrown
        /\ ret.tag = "outcome"
        /\ ~ret.outcome.success
        /\ ret.outcome.message = Message("Failed to ingest product: ", err)
        /\ DOMAIN store = {}

\* the record is found and embedded, and the upsert of its point throws
C16_Witness ==
  /\ Returned("ingestProductByQuery")
  /\ searchProduct(allProducts, query).status = "found"
  /\ faults = <<"upsert">>
  /\ upserts = <<5>>
  /\ ~ret.outcome.success
  /\ ret.outcome.message.err = "upsert failed"

(***************************************************************************)
(* Further properties of the catalog client (SpecFetch).                   *)
(***************************************************************************)
\* C14: a response whose body has success = false makes getProducts throw;
\* in getAllProducts it is the last page requested, none of its records is
\* added to the result and the loop ends.
C14_UnsuccessfulBodyFails ==
  /\ (op = "getProducts" /\ served[1].kind = "notsuccess")
     => /\ thrown
        /\ ret = NoReturn
  /\ op = "getAllProducts"
     => \A k \in 1..Len(served) :
          served[k].kind = "notsuccess"
          => /\ k = Len(served)
             /\ pc \in {"loop", "done"}
             /\ ~LoopGuard
             /\ ~thrown
             /\ allProducts = ServedData(ButLast(served))
             /\ pc = "done" => ret.products = ServedData(ButLast(served))

\* page 2 has success = false, a record and a link: page 1 alone is returned
C14_Witness ==
  /\ Returned("getAllProducts")
  /\ Len(served) = 2
  /\ served[2].kind = "notsuccess"
  /\ Len(served[2].data) = 1
  /\ served[2].next = "url"
  /\ Len(served[1].data) = 1
  /\ ret.products = served[1].data

\* the records of the pages that were accepted, in page order
AcceptedData(s) ==
  IF s # <<>> /\ s[Len(s)].kind # "ok" THEN ServedData(ButLast(s)) ELSE ServedData(s)

\* C15: a page fetched with success, no record and a non-null link does not
\* end the pagination: the next request made is for the following page, the
\* call does not return while that page is still to be requested, and the
\* records returned are those of the other pages, cut to the quota.
C15_EmptyPageContinues ==
  op = "getAllProducts"
  => \A k \in 1..Len(served) :
       (served[k].kind = "ok" /\ served[k].data = <<>> /\ served[k].next = "url")
       => /\ k = Len(served) => /\ pc \in {"delay", "loop"}
                                /\ LoopGuard
                                /\ currentPage = requests[k] + 1
          /\ k < Len(served) => requests[k + 1] = requests[k] + 1
          /\ pc = "done" =>
               ret.products = IF maxProducts > 0
                              THEN slice(AcceptedData(served), maxProducts)
                              ELSE AcceptedData(served)

\* an empty first page with a link, then a page with a record and no link
C15_Witness ==
  /\ Returned("getAllProducts")
  /\ Len(served) = 2
  /\ served[1] = [kind |-> "ok", data |-> <<>>, next |-> "url"]
  /\ served[2].kind = "ok"
  /\ Len(served[2].data) = 1
  /\ requests = <<1, 2>>
  /\ ret.products = served[2].data

SetupOver == pc # "start"

\* C13, as stated: when initialize throws, the run ends with no record
\* embedded or stored; when initialize returns normally, the target
\* collection exists on the host the client talks to.
C13_SetupFatalOrReady ==
  SetupOver
  => /\ thrown => /\ pc = "exit"
                  /\ embedCalls = 0
                  /\ upserts = <<>>
                  /\ DOMAIN store = {}
     /\ ~thrown => client \in collections

\* C13, amended: the same for a store that is enabled (QDRANT_ENABLED is not
\* 'false'); a disabled store makes initialize return at once.
C13_EnabledSetupFatalOrReady ==
  (SetupOver /\ enabled)
  => /\ thrown => /\ pc = "exit"
                  /\ embedCalls = 0
                  /\ upserts = <<>>
                  /\ DOMAIN store = {}
     /\ ~thrown => client \in collections

\* the store is enabled, the collection is on no host and no creation
\* resolves: initialize throws and the run ends
C13_Witness ==
  /\ enabled
  /\ thrown
  /\ pc = "exit"
  /\ collections = {}
  /\ embedCalls = 0

(***************************************************************************)
(* Properties of the list operations of RetrievalService (SpecPure).       *)
(***************************************************************************)
Occurrences(s, x) == Cardinality({k \in 1..Len(s) : s[k] = x})

Reverse(s) == [k \in 1..Len(s) |-> s[Len(s) + 1 - k]]

\* C19: filterByPriceRange(records, min, max) returns exactly the records
\* with min <= price <= max, both bounds included, in their original order;
\* it leaves its argument as it was and makes no call to the embedding
\* provider or the store.
C19_FilterInclusive ==
  Retrieved("filterByPriceRange")
  => LET given == params.given
         keep == {k \in 1..Len(given) :
                    /\ params.minPrice <= given[k].price.n
                    /\ given[k].price.n <= params.maxPrice}
         pos(k) == Cardinality({j \in keep : j <= k})
     IN /\ answer.tag = "list"
        /\ Len(answer.list) = Cardinality(keep)
        /\ \A k \in keep : answer.list[pos(k)] = given[k]
        /\ medicines = given
        /\ embedCalls = 0
        /\ upserts = <<>>
        /\ hits.limit = 0

\* prices 100, 5 and 10 filtered with the bounds 10 and 100
C19_Witness ==
  /\ Retrieved("filterByPriceRange")
  /\ params.minPrice = 1000
  /\ params.maxPrice = 10000
  /\ Len(params.given) = 3
  /\ params.given[1].price = Num(10000)
  /\ params.given[2].price = Num(500)
  /\ params.given[3].price = Num(1000)
  /\ answer.list = <<params.given[1], params.given[3]>>

\* C20: sortMedicines(records, field, order) returns a permutation of its
\* argument; with 'asc' it is non-decreasing in the field; with 'desc', when
\* the values of the field are pairwise distinct, it is the exact reverse of
\* the 'asc' result for the same argument; the argument is left as it was.
C20_SortOrders ==
  Retrieved("sortMedicines")
  => LET given == params.given
         out == answer.list
         f == params.sortBy
         distinct == \A i, j \in 1..Len(given) : i # j => given[i][f].n # given[j][f].n
     IN /\ Len(out) = Len(given)
        /\ \A m \in MedicineUniverse : Occurrences(out, m) = Occurrences(given, m)
        /\ params.order = "asc"
           => \A k \in 1..(Len(out) - 1) : out[k][f].n <= out[k + 1][f].n
        /\ (params.order = "desc" /\ distinct)
           => out = Reverse(sortMedicines(given, f, "asc"))
        /\ medicines = given

\* three medicines of distinct prices, not in order, sorted by price, 'desc'
C20_Witness ==
  /\ Retrieved("sortMedicines")
  /\ params.sortBy = "price"
  /\ params.order = "desc"
  /\ Len(params.given) = 3
  /\ params.given[1].price = Num(1000)
  /\ params.given[2].price = Num(10050)
  /\ params.given[3].price = Num(500)
  /\ answer.list = <<params.given[2], params.given[1], params.given[3]>>
  /\ medicines = params.given

\* what searchMedicines hands back for the text q, given the fault it met and
\* the reply of the store
DelegatedAnswer(q) ==
  IF rfault = "none" THEN SearchResult(q, MapMedicines(hits.points)) ELSE SearchResult(q, <<>>)

\* C21: searchByProductName(name, limit), searchByCategory(category, limit)
\* and getRecommendations(symptoms, limit) each return what searchMedicines
\* returns for the derived text (the name itself; "medicines in <category>
\* category"; the symptoms joined by ", ") with the same limit, and reach the
\* store through that one call only: one embedding request, one search with
\* the limit given.
C21_WrappersDelegate ==
  /\ Retrieved("searchByProductName")
     => /\ searchText = params.productName
        /\ answer = DelegatedAnswer(params.productName)
  /\ Retrieved("searchByCategory")
     => /\ searchText = CategoryPrefix \o params.category \o CategorySuffix
        /\ answer = DelegatedAnswer(CategoryPrefix \o params.category \o CategorySuffix)
  /\ Retrieved("getRecommendations")
     => /\ searchText = join(params.symptoms, SymptomSeparator)
        /\ answer = DelegatedAnswer(join(params.symptoms, SymptomSeparator))
  /\ (Retrieved("searchByProductName") \/ Retrieved("searchByCategory")
        \/ Retrieved("getRecommendations"))
     => /\ embedCalls = 1
        /\ rfault # "embed" => hits.limit = params.limit
        /\ upserts = <<>>

\* searchByCategory("vit", 2) over two points answers with two medicines for
\* the text "medicines in vit category"
C21_Witness ==
  /\ Retrieved("searchByCategory")
  /\ params.category = <<"v", "i", "t">>
  /\ params.limit = 2
  /\ rfault = "none"
  /\ answer.query = CategoryPrefix \o <<"v", "i", "t">> \o CategorySuffix
  /\ answer.totalResults = 2

\* the hit carries no payload, or its payload lacks the field f
Lacks(point, f) ==
  \/ point.payload = NoPayload
  \/ point.payload[f] = (IF f = "product_name" THEN <<>> ELSE Undefined)

\* C26: when the embedding request and the store search succeed,
\* searchMedicines returns one RetrievedMedicine per hit, in the order of the
\* ranking, and totalResults is the length of the list; a hit without a
\* payload, or whose payload lacks a field, gets 'Unknown' for the name and 0
\* for a number, and the search does not fail.
C26_OnePerHitWithDefaults ==
  (Retrieved("searchMedicines") /\ rfault = "none")
  => /\ answer.tag = "search"
     /\ answer.query = searchText
     /\ Len(answer.medicines) = Len(hits.points)
     /\ answer.totalResults = Len(hits.points)
     /\ \A k \in 1..Len(hits.points) :
          LET point == hits.points[k]
              m == answer.medicines[k]
          IN /\ m.id = NumToString(point.id)
             /\ m.product_name = IF Lacks(point, "product_name") THEN UnknownName
                                 ELSE point.payload.product_name
             /\ m.price = IF Lacks(point, "price") THEN Num(0) ELSE point.payload.price
             /\ m.quantity = IF Lacks(point, "quantity") THEN Num(0)
                             ELSE point.payload.quantity

\* two hits: the first without a payload, the second with a quantity only
C26_Witness ==
  /\ Retrieved("searchMedicines")
  /\ rfault = "none"
  /\ Len(hits.points) = 2
  /\ hits.points[1].payload = NoPayload
  /\ hits.points[2].payload = PartialPayload
  /\ answer.medicines[1].product_name = UnknownName
  /\ answer.medicines[1].price = Num(0)
  /\ answer.medicines[2].price = Num(0)
  /\ answer.medicines[2].quantity = Num(700)

\* the identifiers of the successful outcomes, in processing order
RECURSIVE PersistedIds(_)
PersistedIds(rs) ==
  IF rs = <<>> THEN <<>>
  ELSE PersistedIds(ButLast(rs))
       \o (IF rs[Len(rs)].success THEN <<parseInt(rs[Len(rs)].id).val>> ELSE <<>>)

StrictlyIncreasing(s) == \A i, j \in 1..Len(s) : i < j => s[i] < s[j]

\* C22: within one ingestAllProducts run, whatever the (non-decreasing) clock
\* readings and whichever records succeed or fail, the identifiers under
\* which points are persisted are pairwise distinct and strictly increasing
\* in processing order: so are the identifiers of all write requests, and the
\* store holds one point per successful outcome.
C22_IdsStrictlyIncrease ==
  op = "ingestAllProducts"
  => /\ StrictlyIncreasing(upserts)
     /\ StrictlyIncreasing(PersistedIds(results))
     /\ \A k \in 1..Len(PersistedIds(results)) : PersistedIds(results)[k] \in DOMAIN store
     /\ Cardinality(DOMAIN store) = CountOutcomes(results, TRUE)

\* two records stored at the same clock reading: identifiers Now0 and Now0 + 1
C22_Witness ==
  /\ Returned("ingestAllProducts")
  /\ ret.tag = "batch"
  /\ ret.successful = 2
  /\ now = Now0
  /\ PersistedIds(ret.results) = <<Now0, Now0 + 1>>
  /\ DOMAIN store = {Now0, Now0 + 1}

\* C23: in ingestAllProducts the inter-item delay is taken after every
\* processed record but the last, before the embedding request of the next
\* record, whether the record ended in success or in failure, and no delay
\* is taken after the last record.
C23_DelayAfterEveryRecord ==
  op = "ingestAllProducts"
  => /\ (pc = "ingest" /\ idx >= 1 /\ idx < Len(allProducts))
        => \E k \in 1..Len(itemDelays) : itemDelays[k] = idx
     /\ \A k \in 1..Len(itemDelays) : itemDelays[k] < Len(allProducts)

\* values of a price or quantity that is missing or is no number
Unparsable == {Undefined, Str(<<"n", "/", "a">>), Str(<<>>), Str(<<"-">>)}

\* C24: in ingestAllProducts a record whose price or quantity is missing or
\* cannot be parsed as a number gets a success outcome whenever its embedding
\* and its store write succeed, and its payload holds 0 for that field; the
\* coercion of such a value is 0 and never an error.
C24_UnparsableIsZero ==
  /\ \A v \in Unparsable : CoercePrice(v) = Num(0) /\ CoerceQuantity(v) = Num(0)
  /\ (op = "ingestAllProducts" /\ pc \in {"ingest", "itemDelay", "done"})
     => \A k \in 1..Len(results) :
          allProducts[k] = ProdZinc
          => /\ results[k].success <=> faults[k] = "none"
             /\ results[k].success
                => /\ store[parseInt(results[k].id).val].price = Num(0)
                   /\ store[parseInt(results[k].id).val].quantity = Num(0)
                   /\ store[parseInt(results[k].id).val].product_name = <<"Z", "n">>

\* the record with price "n/a" and no quantity, stored with price 0, quantity 0
C24_Witness ==
  /\ Returned("ingestAllProducts")
  /\ ret.tag = "batch"
  /\ allProducts = <<ProdZinc>>
  /\ ret.successful = 1
  /\ ret.results[1].success
  /\ store[parseInt(ret.results[1].id).val] =
       [product_name |-> <<"Z", "n">>, price |-> Num(0), quantity |-> Num(0)]

\* C25: in getAllProducts the inter-page delay elapses between every two
\* consecutive page requests (the k-th delay follows the k-th request and
\* precedes the next), a page is requested only after the response to the
\* page before it has been processed, and no delay is taken after the page
\* that ends the pagination.
C25_DelayBetweenPages ==
  op \in {"getAllProducts", "searchProduct"}
  => /\ \A k \in 1..Len(delays) : delays[k] = k
     /\ Len(served) = Len(requests)
     /\ \A k \in 1..Len(requests) : requests[k] = k
     /\ requests = <<>> => delays = <<>>
     /\ requests # <<>>
        => /\ Len(delays) \in {Len(requests) - 1, Len(requests)}
           /\ pc = "delay" => (Len(delays) = Len(requests) - 1 /\ hasNextPage)
           /\ (pc # "delay" /\ hasNextPage) => Len(delays) = Len(requests)
           /\ ~hasNextPage => Len(delays) = Len(requests) - 1

\* two pages requested, one delay between them, none after the second
C25_Witness ==
  /\ Returned("getAllProducts")
  /\ requests = <<1, 2>>
  /\ delays = <<1>>
  /\ ~hasNextPage

\* C28: two addChunk calls that are given different identifier strings and
\* that both resolve never write to the same point: the mapping from the
\* identifier string to the numeric point id is injective over the
\* identifiers addChunk accepts.
C28_DistinctIdsDistinctPoints ==
  \A i, j \in 1..Len(chunks) :
    (i # j /\ ~chunks[i].threw /\ ~chunks[j].threw /\ chunks[i].id # chunks[j].id)
    => chunks[i].point # chunks[j].point

\* C27: over any sequence of ingestAllProducts runs the store grows, in each
\* run, by exactly the number of that run's successful outcomes: no write of
\* a run lands on a point created earlier in the run or by a run before it,
\* and the count returned is the number of points the run added.
C27_StoreGrowsBySuccesses ==
  op = "ingestAllProducts"
  => /\ pc \in {"ingest", "itemDelay"}
        => Cardinality(DOMAIN store) = startSize + successCount
     /\ (pc = "done" /\ ret.tag = "batch")
        => Cardinality(DOMAIN store) = startSize + ret.successful

\* C29: for every successful outcome o that ingestAllProducts returned, a
\* later getMedicineById(o.id), the store answering, returns a record (not
\* null) whose product_name is o.productName, however many points the
\* collection holds.
C29_IngestedIsFoundById ==
  (/\ Retrieved("getMedicineById")
   /\ op = "ingestAllProducts"
   /\ ret.tag = "batch"
   /\ rfault = "none")
  => \A k \in 1..Len(ret.results) :
       (ret.results[k].success /\ ret.results[k].id = params.medicineId)
       => /\ answer.tag = "medicine"
          /\ answer.medicine.product_name = ret.results[k].productName

\* C30: processWithGemini runs at most 5 rounds of tool calls even if every
\* reply requests tools; in a round each requested call gets exactly one
\* function response, in request order; a call naming a tool that is not in
\* the mapping gets an error response and no request is sent to the MCP
\* server for it, while each call naming a mapped tool sends one request.
C30_RoundsAndResponses ==
  op = "processWithGemini"
  => /\ iterations <= maxIterations
     /\ Len(responses) = Len(asked)
     /\ \A k \in 1..Len(asked) :
          /\ responses[k].name = asked[k]
          /\ asked[k] \notin DOMAIN toolMapping => responses[k].kind = "error"
          /\ asked[k] \in DOMAIN toolMapping => responses[k].kind = "result"
     /\ \A k \in 1..Len(toolRequests) : toolRequests[k].call \in DOMAIN toolMapping
     /\ Len(toolRequests) = Cardinality({k \in 1..Len(asked) : asked[k] \in DOMAIN toolMapping})

\* C30, termination: once called, processWithGemini returns or throws.
C30_Terminates == (op = "processWithGemini") ~> (pc = "done")

====
